---- MODULE Spec2Model ----
(***************************************************************************)
(* State-machine model of django_inscode: the generic Repository           *)
(* (repositories.py), the service mixins that delegate to it (mixins.py)   *)
(* and the permission-checking dispatch of the generic views (views.py).   *)
(*                                                                         *)
(* The repository is generic over a Django model.  The model instance used *)
(* here has a non-editable primary key "id", a plain field "name", a       *)
(* nullable foreign key "owner" (attname "owner_id") and a many-to-many    *)
(* field "tags".  The database is the variable objects; the rows of the    *)
(* two related tables (owners, tags) are fixed.                            *)
(***************************************************************************)
EXTENDS Integers, Sequences, FiniteSets, TLC

VARIABLES
  objects,  \* the table of the model: primary key -> row
  res,      \* the last repository or service call and its outcome
  env,      \* what the environment did in it (validators, pk parsing)
  calls,    \* the repository calls the last service call made
  view,     \* the last request dispatched by the view and its outcome
  gone      \* history: the ids that were stored once and are not stored now

vars == <<objects, res, env, calls, view, gone>>

(***************************************************************************)
(* Bounds                                                                  *)
(***************************************************************************)
MaxId == 1
MaxTag == 1

Ids == 0..MaxId
TagIds == 1..MaxTag
OwnerIds == {1}

(***************************************************************************)
(* Python values that travel in **data                                     *)
(***************************************************************************)
V(k, n, s, items) == [k |-> k, n |-> n, s |-> s, items |-> items]
NoneV == V("none", 0, "", <<>>)
IntV(n) == V("int", n, "", <<>>)
StrV(s) == V("str", 0, s, <<>>)
ObjV(n) == V("obj", n, "", <<>>)
ListV(items) == V("list", 0, "", items)

(* Python's str() of an int, and the database's parsing of a pk string.    *)
Digits == <<"0", "1", "2", "3", "4", "5", "6", "7", "8", "9">>
PyStr(v) == IF v.k = "int" THEN Digits[v.n + 1] ELSE v.s
WellFormedPk(s) == \E n \in 0..9 : Digits[n + 1] = s
ParsePk(s) == CHOOSE n \in 0..9 : Digits[n + 1] = s

(***************************************************************************)
(* Model instances, exceptions and results                                 *)
(***************************************************************************)
NoId == 0 - 1
DefaultName == "a"
Inst(id, name, owner, tags) == [id |-> id, name |-> name, owner |-> owner, tags |-> tags]
NoInst == Inst(NoId, "", {}, {})
Row(inst) == [name |-> inst.name, owner |-> inst.owner, tags |-> inst.tags]
Stored(objs, id) == Inst(id, objs[id].name, objs[id].owner, objs[id].tags)

NoneField == "<None>"
NON_FIELD_ERRORS == "__all__"
Err(field, message) == [field |-> field, message |-> message]

(* django.core.exceptions.ValidationError: either an error_dict (field ->  *)
(* list of errors, in dict order) or an error_list; each error has a       *)
(* message and params.                                                     *)
FieldError(message, params) == [message |-> message, params |-> params]
NoParams == {}
DictVE(d) == [form |-> "dict", error_dict |-> d, error_list |-> <<>>]
ListVE(l) == [form |-> "list", error_dict |-> <<>>, error_list |-> l]
NoVE == [form |-> "none", error_dict |-> <<>>, error_list |-> <<>>]
Entry(field, errs) == [field |-> field, errs |-> errs]

(* message % params: every %(key)x placeholder whose key is in params is   *)
(* replaced by the value of that key.                                      *)
PlaceholderKey == ("%(value)s" :> "value") @@ ("%(limit_value)d" :> "limit_value")
ParamValue(params, key) == (CHOOSE p \in params : p[1] = key)[2]
Interpolate(message, params) ==
  [i \in DOMAIN message |->
     IF message[i] \in DOMAIN PlaceholderKey
        /\ \E p \in params : p[1] = PlaceholderKey[message[i]]
       THEN ParamValue(params, PlaceholderKey[message[i]])
       ELSE message[i]]

(* What a call returns or raises: kind is "ok" or the exception class;     *)
(* value is the returned instance, found the ids of a returned queryset,   *)
(* cause the ValidationError a BadRequest was built from.                  *)
Outcome(kind, message, errors, value, cause, found) ==
  [kind |-> kind, message |-> message, errors |-> errors, value |-> value,
   cause |-> cause, found |-> found]
Ok(value) == Outcome("ok", "", <<>>, value, NoVE, {})
OkList(found) == Outcome("ok", "", <<>>, NoInst, NoVE, found)
Raise(kind, message, errors) == Outcome(kind, message, errors, NoInst, NoVE, {})
RaiseValidationError(ve) == Outcome("ValidationError", "", <<>>, NoInst, ve, {})
Result(out, objs) == [out |-> out, objs |-> objs]

(* The model's metadata: _meta.get_field accepts field names and the       *)
(* foreign key's attname.                                                  *)
ModelFields == {"id", "name", "owner", "tags"}
GetFieldNames == ModelFields \cup {"owner_id"}
ManyToManyFields == {"tags"}
EditableFields == {"name", "owner", "tags"}
ObjectName == "Item"

Item(key, value) == [key |-> key, value |-> value]
HasKey(data, key) == \E i \in DOMAIN data : data[i].key = key
ValueOf(data, key) == data[CHOOSE i \in DOMAIN data : data[i].key = key].value
Put(objs, inst) ==
  [i \in DOMAIN objs \cup {inst.id} |-> IF i = inst.id THEN Row(inst) ELSE objs[i]]
Remove(objs, id) == [i \in DOMAIN objs \ {id} |-> objs[i]]

(***************************************************************************)
(* Repository._format_validation_errors                                    *)
(***************************************************************************)
(* Mutant: the params are never interpolated                               *)
FormatFieldErrors_raw(field, field_errors) ==
  [i \in DOMAIN field_errors |-> Err(field, field_errors[i].message)]

FormatFieldErrors(field, field_errors) ==
  [i \in DOMAIN field_errors |->
     Err(field,
         IF field_errors[i].params # NoParams
           THEN Interpolate(field_errors[i].message, field_errors[i].params)
           ELSE field_errors[i].message)]

RECURSIVE FormatErrorDict(_)
FormatErrorDict(error_dict) ==
  IF error_dict = <<>> THEN <<>>
  ELSE FormatFieldErrors(Head(error_dict).field, Head(error_dict).errs)
         \o FormatErrorDict(Tail(error_dict))

_format_validation_errors(error) ==
  IF error.form = "dict" THEN FormatErrorDict(error.error_dict)
  ELSE IF error.form = "list" THEN FormatFieldErrors(NoneField, error.error_list)
  ELSE <<>>

(***************************************************************************)
(* Repository._save                                                        *)
(***************************************************************************)
(* instance.full_clean(): Django collects the per-field errors, the        *)
(* non-field errors of Model.clean() (under NON_FIELD_ERRORS) and the      *)
(* uniqueness errors in one error_dict.  appErrors are the errors the      *)
(* application's validators report for this instance.                      *)
FullClean(objs, instance, adding, appErrors) ==
  LET unique == IF adding /\ instance.id \in DOMAIN objs
                  THEN <<Entry("id", <<FieldError(<<"Item with this Id already exists.">>,
                                                  NoParams)>>)>>
                  ELSE <<>>
      d == appErrors \o unique
  IN  IF d = <<>> THEN NoVE ELSE DictVE(d)

(* related_model.objects.filter(pk__in=ids) on a malformed id: the pk      *)
(* field raises ValueError (integer pk) or ValidationError (UUID pk).      *)
MalformedPk(field_name, id, pkExc) ==
  IF pkExc = "ValueError"
    THEN Raise("BadRequest", "IDs invalidos.", <<Err(field_name, <<"IDs malformados.">>)>>)
    ELSE RaiseValidationError(
           ListVE(<<FieldError(<<"%(value)s", " is not a valid UUID.">>,
                               {<<"value", id>>})>>))

(* getattr(instance, field_name).set(related_objects) for a list that is   *)
(* not made of ids only.                                                   *)
SetRelated(items) ==
  IF \E i \in DOMAIN items : items[i].k = "str" /\ ~WellFormedPk(items[i].s)
    THEN [exc |-> Raise("ValueError", "expected a number", <<>>), tags |-> {}]
  ELSE IF \E i \in DOMAIN items : items[i].k \notin {"obj", "int", "str"}
    THEN [exc |-> Raise("TypeError", "not a pk or instance", <<>>), tags |-> {}]
  ELSE LET pks == {IF items[i].k = "str" THEN ParsePk(items[i].s) ELSE items[i].n :
                     i \in DOMAIN items}
       IN  IF pks \subseteq TagIds
             THEN [exc |-> Ok(NoInst), tags |-> pks]
             ELSE [exc |-> Raise("IntegrityError", "FOREIGN KEY constraint failed", <<>>),
                   tags |-> {}]

(* One pass of the loop over many_to_many_data.items()                     *)
SaveRelation(field_name, value, pkExc) ==
  IF value.k # "list"
    THEN [exc |-> Raise("BadRequest", "Valor invalido para o campo ManyToMany.",
                        <<Err(field_name, <<"Esperada uma lista de IDs ou instancias.">>)>>),
          tags |-> {}]
  ELSE IF \A i \in DOMAIN value.items : value.items[i].k \in {"int", "str"}
    THEN LET ids == [i \in DOMAIN value.items |-> PyStr(value.items[i])]
         IN  IF \E i \in DOMAIN ids : ~WellFormedPk(ids[i])
               THEN [exc |-> MalformedPk(field_name,
                                         ids[CHOOSE i \in DOMAIN ids : ~WellFormedPk(ids[i])],
                                         pkExc),
                     tags |-> {}]
               ELSE LET related_objects ==
                          {t \in TagIds : \E i \in DOMAIN ids : ParsePk(ids[i]) = t}
                    IN  IF Cardinality(related_objects) # Len(value.items)
                          THEN [exc |-> Raise("BadRequest",
                                              "Alguns objetos relacionados nao foram encontrados.",
                                              <<Err(field_name, <<"IDs invalidos">>)>>),
                                tags |-> {}]
                          ELSE [exc |-> Ok(NoInst), tags |-> related_objects]
  ELSE SetRelated(value.items)

RECURSIVE SaveManyToMany(_, _, _)
SaveManyToMany(many_to_many_data, tags, pkExc) ==
  IF many_to_many_data = <<>> THEN [exc |-> Ok(NoInst), tags |-> tags]
  ELSE LET r == SaveRelation(Head(many_to_many_data).key, Head(many_to_many_data).value, pkExc)
       IN  IF r.exc.kind # "ok" THEN r
           ELSE SaveManyToMany(Tail(many_to_many_data), r.tags, pkExc)

(* The except clauses of _save: a ValidationError becomes a BadRequest     *)
(* carrying the formatted errors, any other exception (BadRequest is an    *)
(* Exception) becomes an InternalServerError.                              *)
SaveExcept(exc) ==
  IF exc.kind = "ValidationError"
    THEN Outcome("BadRequest", "", _format_validation_errors(exc.cause), NoInst, exc.cause, {})
    ELSE Raise("InternalServerError", "", <<Err("internal_server_error", <<exc.message>>)>>)

(* transaction.atomic(): an exception leaving the block rolls the save     *)
(* back, so objs is returned unchanged.                                    *)
Commit(objs, saved) == Result(Ok(saved), Put(objs, saved))
(* Mutant: the relation is looked up but never set                         *)
SaveRelations_unset(objs, instance, m) ==
  IF m.exc.kind # "ok" THEN Result(SaveExcept(m.exc), objs)
  ELSE Commit(objs, instance)

SaveRelations(objs, instance, m) ==
  IF m.exc.kind # "ok" THEN Result(SaveExcept(m.exc), objs)
  ELSE Commit(objs, [instance EXCEPT !.tags = m.tags])
SaveCleaned(objs, instance, many_to_many_data, ve, pkExc) ==
  IF ve # NoVE THEN Result(SaveExcept(RaiseValidationError(ve)), objs)
  ELSE SaveRelations(objs, instance, SaveManyToMany(many_to_many_data, instance.tags, pkExc))
_save(objs, instance, many_to_many_data, adding, appErrors, pkExc) ==
  SaveCleaned(objs, instance, many_to_many_data,
              FullClean(objs, instance, adding, appErrors), pkExc)

(***************************************************************************)
(* Repository.create / read / update / delete / filter                     *)
(***************************************************************************)
FieldDoesNotExist(field_name) ==
  Raise("BadRequest", "Campo inexistente.",
        <<Err(field_name, <<"Este campo nao existe no modelo.">>)>>)

IsManyToMany(item) == item.key \in ManyToManyFields
IsNotManyToMany(item) == item.key \notin ManyToManyFields

(* self.model(data): a foreign key takes an instance or None under its   *)
(* name and a pk under its attname; anything else is a ValueError.         *)
ModelInitFails(data) ==
  HasKey(data, "owner") /\ ValueOf(data, "owner").k \notin {"obj", "none"}

ModelInit(data, newId) ==
  Inst(IF HasKey(data, "id") THEN ValueOf(data, "id").n ELSE newId,
       IF HasKey(data, "name") THEN ValueOf(data, "name").s ELSE DefaultName,
       IF HasKey(data, "owner") /\ ValueOf(data, "owner").k = "obj"
         THEN {ValueOf(data, "owner").n}
       ELSE IF HasKey(data, "owner_id") /\ ValueOf(data, "owner_id").k = "int"
         THEN {ValueOf(data, "owner_id").n}
       ELSE {},
       {})

create(objs, data, newId, appErrors, pkExc) ==
  IF \E i \in DOMAIN data : data[i].key \notin GetFieldNames
    THEN Result(FieldDoesNotExist(
                  data[CHOOSE i \in DOMAIN data :
                         /\ data[i].key \notin GetFieldNames
                         /\ \A j \in 1..(i - 1) : data[j].key \in GetFieldNames].key),
                objs)
  ELSE IF ModelInitFails(SelectSeq(data, IsNotManyToMany))
    THEN Result(Raise("ValueError", "Cannot assign: must be an instance.", <<>>), objs)
  ELSE _save(objs, ModelInit(SelectSeq(data, IsNotManyToMany), newId),
             SelectSeq(data, IsManyToMany), TRUE, appErrors, pkExc)

(* Mutant: "if not id" takes the id 0 for no id                            *)
read_falsy_id(objs, id) ==
  IF id \in DOMAIN objs /\ id # 0
    THEN Result(Ok(Stored(objs, id)), objs)
    ELSE Result(Raise("NotFound", "Item nao encontrado", <<>>), objs)

read(objs, id) ==
  IF id \in DOMAIN objs
    THEN Result(Ok(Stored(objs, id)), objs)
    ELSE Result(Raise("NotFound", "Item nao encontrado", <<>>), objs)

(* key[:-3] if key.endswith("_id") else key, over the keys of the model    *)
StripSuffix == ("owner_id" :> "owner") @@ ("name_id" :> "name") @@ ("bogus_id" :> "bogus")
FieldNameOf(key) == IF key \in DOMAIN StripSuffix THEN StripSuffix[key] ELSE key

(* The body of update's loop for a many-to-one field                       *)
SetForeignKey(instance, field_name, value) ==
  IF value.k = "none" THEN [exc |-> Ok(NoInst), instance |-> [instance EXCEPT !.owner = {}]]
  ELSE IF value.k = "obj"
    THEN [exc |-> Ok(NoInst), instance |-> [instance EXCEPT !.owner = {value.n}]]
  ELSE IF value.k = "str" /\ ~WellFormedPk(value.s)
    THEN [exc |-> Raise("ValueError", "expected a number", <<>>), instance |-> instance]
  ELSE LET pk == IF value.k = "str" THEN ParsePk(value.s) ELSE value.n
       IN  IF pk \in OwnerIds
             THEN [exc |-> Ok(NoInst), instance |-> [instance EXCEPT !.owner = {pk}]]
             ELSE [exc |-> Raise("BadRequest", "Objeto relacionado nao encontrado para o campo",
                                 <<Err(field_name, <<"Referencia invalida">>)>>),
                   instance |-> instance]

RECURSIVE UpdateLoop(_, _, _)
UpdateLoop(data, instance, many_to_many_data) ==
  IF data = <<>>
    THEN [exc |-> Ok(NoInst), instance |-> instance, many_to_many_data |-> many_to_many_data]
  ELSE LET value == Head(data).value
           field_name == FieldNameOf(Head(data).key)
           m2m == IF field_name \in ManyToManyFields
                    THEN Append(many_to_many_data, Item(field_name, value))
                    ELSE many_to_many_data
       IN  IF field_name \notin GetFieldNames
             THEN [exc |-> FieldDoesNotExist(field_name), instance |-> instance,
                   many_to_many_data |-> m2m]
           ELSE IF field_name \notin EditableFields \/ field_name \in ManyToManyFields
             THEN UpdateLoop(Tail(data), instance, m2m)
           ELSE IF field_name = "owner"
             THEN LET r == SetForeignKey(instance, field_name, value)
                  IN  IF r.exc.kind # "ok"
                        THEN [exc |-> r.exc, instance |-> instance, many_to_many_data |-> m2m]
                        ELSE UpdateLoop(Tail(data), r.instance, m2m)
           ELSE UpdateLoop(Tail(data), [instance EXCEPT !.name = value.s], m2m)

UpdateAssigned(objs, r, appErrors, pkExc) ==
  IF r.exc.kind # "ok" THEN Result(r.exc, objs)
  ELSE _save(objs, r.instance, r.many_to_many_data, FALSE, appErrors, pkExc)
UpdateFound(objs, found, data, appErrors, pkExc) ==
  IF found.out.kind # "ok" THEN found
  ELSE UpdateAssigned(objs, UpdateLoop(data, found.out.value, <<>>), appErrors, pkExc)
update(objs, id, data, appErrors, pkExc) ==
  UpdateFound(objs, read(objs, id), data, appErrors, pkExc)

(* dbError: instance.delete() raised (a protected relation, a lost         *)
(* connection); the transaction is rolled back.                            *)
(* Mutant: instance.delete() is never called                               *)
DeleteFound_kept(objs, found, id, dbError) ==
  IF found.out.kind # "ok" THEN found ELSE Result(Ok(NoInst), objs)

DeleteFound(objs, found, id, dbError) ==
  IF found.out.kind # "ok" THEN found
  ELSE IF dbError
    THEN Result(Raise("InternalServerError", "", <<Err(NoneField, <<"database error">>)>>), objs)
  ELSE Result(Ok(NoInst), Remove(objs, id))
delete(objs, id, dbError) == DeleteFound(objs, read(objs, id), id, dbError)

(* self.model.objects.filter(kwargs), for lookups on id and name         *)
Matches(objs, id, kwargs) ==
  \A i \in DOMAIN kwargs :
     IF kwargs[i].key = "id" THEN kwargs[i].value.n = id
     ELSE objs[id].name = kwargs[i].value.s

filter(objs, kwargs) ==
  IF \E i \in DOMAIN kwargs : kwargs[i].key \notin {"id", "name"}
    THEN Result(Raise("FieldError", "Cannot resolve keyword into field.", <<>>), objs)
    ELSE Result(OkList({id \in DOMAIN objs : Matches(objs, id, kwargs)}), objs)

(***************************************************************************)
(* The service mixins (mixins.py): each returns what the repository's call *)
(* returns, and the list of repository calls it made.                      *)
(***************************************************************************)
Call(op, id, data, out) == [op |-> op, id |-> id, data |-> data, out |-> out]
NoCall == Call("none", NoId, <<>>, Ok(NoInst))
Served(r, op, id, data) ==
  [out |-> r.out, objs |-> r.objs, calls |-> <<Call(op, id, data, r.out)>>]

ServiceCreateMixin_create(objs, data, context, newId, appErrors, pkExc) ==
  Served(create(objs, data, newId, appErrors, pkExc), "create", NoId, data)

ServiceReadMixin_read(objs, id, context) ==
  Served(read(objs, id), "read", id, <<>>)

ServiceReadMixin_list(objs, context, kwargs) ==
  Served(filter(objs, kwargs), "filter", NoId, kwargs)

ServiceUpdateMixin_update(objs, id, data, context, appErrors, pkExc) ==
  Served(update(objs, id, data, appErrors, pkExc), "update", id, data)

(* Mutant: delete looks the instance up and returns without deleting it    *)
ServiceDeleteMixin_delete_reads(objs, id, context, dbError) ==
  Served(read(objs, id), "read", id, <<>>)

ServiceDeleteMixin_delete(objs, id, context, dbError) ==
  Served(delete(objs, id, dbError), "delete", id, <<>>)

(***************************************************************************)
(* GenericView / GenericModelView (views.py) and the view mixins           *)
(* (mixins.py), for a ModelView: every handler is defined.                 *)
(***************************************************************************)
Permission(has_permission, has_object_permission) ==
  [has_permission |-> has_permission, has_object_permission |-> has_object_permission]

(* permissions_classes unset (None) or empty is <<>>                       *)
get_permissions(permissions_classes) ==
  IF permissions_classes = <<>> THEN <<>> ELSE permissions_classes

(* obj is TRUE when check_permissions is given an object (a model instance *)
(* is truthy)                                                              *)
(* Mutant: only the object-level permission is checked                     *)
RECURSIVE CheckEach_object_only(_, _)
CheckEach_object_only(permissions, obj) ==
  IF permissions = <<>> THEN "ok"
  ELSE IF obj /\ ~Head(permissions).has_object_permission THEN "Forbidden"
  ELSE CheckEach_object_only(Tail(permissions), obj)

RECURSIVE CheckEach(_, _)
CheckEach(permissions, obj) ==
  IF permissions = <<>> THEN "ok"
  ELSE IF ~Head(permissions).has_permission THEN "Forbidden"
  ELSE IF obj /\ ~Head(permissions).has_object_permission THEN "Forbidden"
  ELSE CheckEach(Tail(permissions), obj)

check_permissions(permissions_classes, obj) ==
  CheckEach(get_permissions(permissions_classes), obj)

(* self.kwargs.get(self.lookup_field): NoLookup is None                    *)
NoLookup == NoId
Lookups == Ids \cup {NoLookup}
Falsy(lookup_value) == lookup_value = NoLookup \/ lookup_value = 0

(* service.perform_action(name, ...): calls the service's method of that   *)
(* name with the arguments.                                                *)
perform_action(objs, name, id, data, context, newId) ==
  IF name = "read" THEN ServiceReadMixin_read(objs, id, context)
  ELSE IF name = "list" THEN ServiceReadMixin_list(objs, context, data)
  ELSE IF name = "create"
    THEN ServiceCreateMixin_create(objs, data, context, newId, <<>>, "ValueError")
  ELSE IF name = "update"
    THEN ServiceUpdateMixin_update(objs, id, data, context, <<>>, "ValueError")
  ELSE ServiceDeleteMixin_delete(objs, id, context, FALSE)

(* What a step of the view did: the exception it raised ("none": it        *)
(* returned a response with this status), the store, the service actions   *)
(* performed.                                                              *)
Did(raised, status, objs, actions) ==
  [raised |-> raised, status |-> status, objs |-> objs, actions |-> actions,
   handlerRan |-> FALSE]
Performed(r, name, status) ==
  Did(IF r.out.kind = "ok" THEN "none" ELSE r.out.kind,
      IF r.out.kind = "ok" THEN status ELSE 0, r.objs, <<name>>)
Perform(objs, name, id, data, context, newId, status) ==
  Performed(perform_action(objs, name, id, data, context, newId), name, status)

get_object(objs, lookup_value, context) ==
  IF Falsy(lookup_value) THEN Did("BadRequest", 0, objs, <<>>)
  ELSE Perform(objs, "read", lookup_value, <<>>, context, NoId, 200)

(* The request body: its content type and JSON are sound or not            *)
Body(sound, data) == [sound |-> sound, data |-> data]
ViewFields == {"name"}
verify_fields(data) == \A f \in ViewFields : HasKey(data, f)

post(objs, body, context, newId) ==
  IF ~body.sound THEN Did("BadRequest", 0, objs, <<>>)
  ELSE IF ~verify_fields(body.data) THEN Did("BadRequest", 0, objs, <<>>)
  ELSE Perform(objs, "create", NoId, body.data, context, newId, 201)

get(objs, obj_id, context) ==
  IF obj_id # NoLookup THEN get_object(objs, obj_id, context)
  ELSE Perform(objs, "list", NoId, <<>>, context, NoId, 200)

_update(objs, obj_id, body, context) ==
  IF Falsy(obj_id) THEN Did("BadRequest", 0, objs, <<>>)
  ELSE IF ~body.sound THEN Did("BadRequest", 0, objs, <<>>)
  ELSE Perform(objs, "update", obj_id, body.data, context, NoId, 200)

patch(objs, obj_id, body, context) == _update(objs, obj_id, body, context)

put(objs, obj_id, body, context) ==
  IF ~body.sound THEN Did("JSONDecodeError", 0, objs, <<>>)
  ELSE IF ~verify_fields(body.data) THEN Did("BadRequest", 0, objs, <<>>)
  ELSE _update(objs, obj_id, body, context)

view_delete(objs, obj_id, context) ==
  IF Falsy(obj_id) THEN Did("BadRequest", 0, objs, <<>>)
  ELSE Perform(objs, "delete", obj_id, <<>>, context, NoId, 204)

(* View.dispatch: the handler named by the HTTP method                     *)
Handler(objs, method, lookup_value, body, context, newId) ==
  IF method = "GET" THEN get(objs, lookup_value, context)
  ELSE IF method = "POST" THEN post(objs, body, context, newId)
  ELSE IF method = "PUT" THEN put(objs, lookup_value, body, context)
  ELSE IF method = "PATCH" THEN patch(objs, lookup_value, body, context)
  ELSE view_delete(objs, lookup_value, context)

(* The handler h ran after get_object did the actions in before           *)
Handled(h, before) == [h EXCEPT !.handlerRan = TRUE, !.actions = before \o @]

(* dispatch after self.get_object() ended as o; h is what the handler does *)
AfterGetObject(objs, o, permissions_classes, h) ==
  IF o.raised = "BadRequest" THEN Handled(h, o.actions)
  ELSE IF o.raised # "none" THEN o
  ELSE IF check_permissions(permissions_classes, TRUE) # "ok"
    THEN Did("Forbidden", 0, objs, o.actions)
  ELSE Handled(h, o.actions)

dispatch(objs, method, lookup_value, permissions_classes, body, context, newId) ==
  IF check_permissions(permissions_classes, FALSE) # "ok"
    THEN Did("Forbidden", 0, objs, <<>>)
  ELSE AfterGetObject(objs, get_object(objs, lookup_value, context), permissions_classes,
                      Handler(objs, method, lookup_value, body, context, newId))

(***************************************************************************)
(* Inputs                                                                  *)
(***************************************************************************)
MissingTag == ListV(<<IntV(MaxTag + 1)>>)
MalformedTag == ListV(<<StrV("x")>>)
DuplicateTag == ListV(<<IntV(1), IntV(1)>>)

(* Data the repository accepts, its values of the fields' own types        *)
DataCrud ==
  {<<>>,
   <<Item("name", StrV("b"))>>,
   <<Item("name", StrV("b")), Item("tags", ListV(<<IntV(1)>>))>>,
   <<Item("tags", ListV(<<StrV("1")>>)), Item("name", StrV("a"))>>,
   <<Item("owner", ObjV(1)), Item("tags", ListV(<<ObjV(1)>>))>>,
   <<Item("owner_id", IntV(1))>>,
   <<Item("owner", NoneV)>>,
   <<Item("tags", ListV(<<>>))>>}
  \cup {<<Item("id", IntV(n))>> : n \in Ids}

(* Data with something wrong in it, and three sound ones                   *)
DataErr ==
  {<<>>,
   <<Item("name", StrV("b"))>>,
   <<Item("name", StrV("b")), Item("tags", ListV(<<IntV(1)>>))>>,
   <<Item("tags", IntV(1))>>,
   <<Item("tags", MissingTag)>>,
   <<Item("tags", MalformedTag)>>,
   <<Item("tags", DuplicateTag)>>,
   <<Item("bogus", IntV(1))>>,
   <<Item("name", StrV("b")), Item("bogus", IntV(1))>>,
   <<Item("tags", IntV(1)), Item("bogus", IntV(1))>>,
   <<Item("owner", IntV(2)), Item("bogus", IntV(1))>>,
   <<Item("bogus_id", IntV(1)), Item("owner", IntV(2))>>,
   <<Item("owner", IntV(2))>>,
   <<Item("name_id", StrV("b"))>>}

(* What the application's validators may report in full_clean              *)
AppErrorChoices ==
  {<<>>,
   <<Entry("name", <<FieldError(<<"Ensure this value has at most ", "%(limit_value)d",
                                  " characters.">>, {<<"limit_value", "1">>}),
                     FieldError(<<"This field cannot be blank.">>, NoParams)>>),
     Entry(NON_FIELD_ERRORS, <<FieldError(<<"Name and owner do not match.">>, NoParams)>>)>>}

HasMalformedPk(data) ==
  \E i \in DOMAIN data :
     /\ data[i].value.k = "list"
     /\ \E j \in DOMAIN data[i].value.items :
           data[i].value.items[j].k = "str" /\ ~WellFormedPk(data[i].value.items[j].s)
PkExcChoices(data) == IF HasMalformedPk(data) THEN {"ValueError", "ValidationError"}
                      ELSE {"ValueError"}
(* The primary key a new row gets when data names none                     *)
AutoIds(objs) == (Ids \ {0}) \ DOMAIN objs
NewIds(objs, data) == IF HasKey(data, "id") THEN {NoId} ELSE AutoIds(objs)

(***************************************************************************)
(* State and the repository's operations as actions                        *)
(***************************************************************************)
Contexts == {"alice", "bob"}
DataSvc == {<<Item("name", StrV("b"))>>,
            <<Item("id", IntV(0))>>,
            <<Item("tags", ListV(<<IntV(1)>>))>>,
            <<Item("bogus", IntV(1))>>}
Kwargs == {<<>>, <<Item("name", StrV("a"))>>, <<Item("bogus", IntV(1))>>}

Allow == Permission(TRUE, TRUE)
DenyRequest == Permission(FALSE, TRUE)
DenyObject == Permission(TRUE, FALSE)
PermissionLists ==
  {<<>>, <<Allow>>, <<DenyRequest>>, <<DenyObject>>, <<Allow, DenyRequest>>,
   <<Allow, DenyObject>>, <<DenyObject, DenyRequest>>}
Methods == {"GET", "POST", "PUT", "PATCH", "DELETE"}
Bodies(method) ==
  IF method \in {"GET", "DELETE"} THEN {Body(TRUE, <<>>)}
  ELSE {Body(TRUE, <<Item("name", StrV("b"))>>),
        Body(TRUE, <<Item("id", IntV(0)), Item("name", StrV("b"))>>),
        Body(TRUE, <<>>), Body(FALSE, <<>>)}

Request(method, lookup, permissions_classes, existed, d) ==
  [method |-> method, lookup |-> lookup, permissions_classes |-> permissions_classes,
   existed |-> existed, raised |-> d.raised, status |-> d.status,
   actions |-> d.actions, handlerRan |-> d.handlerRan]
NoView == Request("none", NoLookup, <<>>, FALSE, Did("none", 0, <<>>, <<>>))

Env(appErrors, pkExc) == [appErrors |-> appErrors, pkExc |-> pkExc]
NoEnv == Env(<<>>, "ValueError")
Gone(objs) == (gone \cup DOMAIN objects) \ DOMAIN objs

Init ==
  /\ objects = <<>>
  /\ res = NoCall
  /\ env = NoEnv
  /\ calls = <<>>
  /\ view = NoView
  /\ gone = {}

Apply(r, op, id, data, e) ==
  /\ objects' = r.objs
  /\ res' = Call(op, id, data, r.out)
  /\ env' = e
  /\ gone' = Gone(r.objs)
  /\ UNCHANGED <<calls, view>>

Create(Data) ==
  \E data \in Data, appErrors \in AppErrorChoices :
    \E pkExc \in PkExcChoices(data), newId \in NewIds(objects, data) :
      Apply(create(objects, data, newId, appErrors, pkExc), "create", NoId, data,
            Env(appErrors, pkExc))

Read ==
  \E id \in Ids : Apply(read(objects, id), "read", id, <<>>, NoEnv)

Update(Data) ==
  \E id \in Ids, data \in Data, appErrors \in AppErrorChoices :
    \E pkExc \in PkExcChoices(data) :
      Apply(update(objects, id, data, appErrors, pkExc), "update", id, data,
            Env(appErrors, pkExc))

Delete ==
  \E id \in Ids, dbError \in BOOLEAN :
    Apply(delete(objects, id, dbError), "delete", id, <<>>, NoEnv)

(* The service's operations                                                *)
Serve(s, op, id, data) ==
  /\ objects' = s.objs
  /\ res' = Call(op, id, data, s.out)
  /\ calls' = s.calls
  /\ gone' = Gone(s.objs)
  /\ UNCHANGED <<env, view>>

ServiceCreate ==
  \E data \in DataSvc, context \in Contexts, appErrors \in AppErrorChoices :
    \E newId \in NewIds(objects, data) :
      Serve(ServiceCreateMixin_create(objects, data, context, newId, appErrors, "ValueError"),
            "create", NoId, data)

ServiceRead ==
  \E id \in Ids, context \in Contexts :
    Serve(ServiceReadMixin_read(objects, id, context), "read", id, <<>>)

ServiceList ==
  \E kwargs \in Kwargs, context \in Contexts :
    Serve(ServiceReadMixin_list(objects, context, kwargs), "list", NoId, kwargs)

ServiceUpdate ==
  \E id \in Ids, data \in DataSvc, context \in Contexts, appErrors \in AppErrorChoices :
    Serve(ServiceUpdateMixin_update(objects, id, data, context, appErrors, "ValueError"),
          "update", id, data)

ServiceDelete ==
  \E id \in Ids, context \in Contexts, dbError \in BOOLEAN :
    Serve(ServiceDeleteMixin_delete(objects, id, context, dbError), "delete", id, <<>>)

(* A request to the view                                                   *)
Respond(d, method, lookup, permissions_classes, existed) ==
  /\ objects' = d.objs
  /\ view' = Request(method, lookup, permissions_classes, existed, d)
  /\ gone' = Gone(d.objs)
  /\ UNCHANGED <<res, env, calls>>

Dispatch ==
  \E method \in Methods, lookup \in Lookups, permissions_classes \in PermissionLists :
    \E body \in Bodies(method), context \in Contexts :
      \E newId \in IF method = "POST" THEN NewIds(objects, body.data) ELSE {NoId} :
        Respond(dispatch(objects, method, lookup, permissions_classes, body, context, newId),
                method, lookup, permissions_classes, lookup \in DOMAIN objects)

Next == Create(DataCrud) \/ Read \/ Update(DataCrud) \/ Delete

Spec == Init /\ [][Next]_vars

NextErr == Create(DataErr) \/ Read \/ Update(DataErr) \/ Delete

SpecErr == Init /\ [][NextErr]_vars

NextService == ServiceCreate \/ ServiceRead \/ ServiceList \/ ServiceUpdate \/ ServiceDelete

SpecService == Init /\ [][NextService]_vars

NextView == Dispatch

SpecView == Init /\ [][NextView]_vars

(***************************************************************************)
(* Properties                                                              *)
(***************************************************************************)

ReadStep ==
  res'.op = "read" =>
    /\ objects' = objects
    /\ res'.id \in DOMAIN objects =>
          /\ res'.out.kind = "ok"
          /\ res'.out.value.id = res'.id
          /\ res'.out.value.name = objects[res'.id].name
          /\ res'.out.value.owner = objects[res'.id].owner
          /\ res'.out.value.tags = objects[res'.id].tags
    /\ res'.out.kind = "NotFound" <=> res'.id \notin DOMAIN objects
    /\ res'.out.kind \in {"ok", "NotFound"}

(* C3: Repository.read(id) returns the stored instance whose id is the     *)
(* argument when one is stored, raises NotFound exactly when none is, and  *)
(* leaves the stored data as it was.                                       *)
C3_ReadReturnsStoredOrNotFound == [][ReadStep]_vars

C3_Witness ==
  /\ res.op = "read" /\ res.out.kind = "ok"
  /\ res.out.value.name = "b" /\ res.out.value.tags # {}
  /\ Cardinality(DOMAIN objects) > 1

DeleteStep ==
  /\ (res'.op = "delete" /\ res'.out.kind = "ok") =>
        /\ res'.id \in DOMAIN objects
        /\ res'.id \notin DOMAIN objects'
        /\ res'.id \in gone'
        /\ \A id \in DOMAIN objects \ {res'.id} :
              id \in DOMAIN objects' /\ objects'[id] = objects[id]
  /\ (res'.op \in {"read", "update", "delete"} /\ res'.id \notin DOMAIN objects) =>
        /\ res'.out.kind = "NotFound"
        /\ objects' = objects
  /\ \A id \in gone :
        /\ id \notin DOMAIN objects
        /\ id \notin gone' =>
              /\ res'.op = "create" /\ res'.out.kind = "ok"
              /\ res'.out.value.id = id

Denotes(item, pk) ==
  \/ item.k \in {"int", "obj"} /\ item.n = pk
  \/ item.k = "str" /\ item.s = Digits[pk + 1]
GivenRelated(items) == {pk \in TagIds : \E i \in DOMAIN items : Denotes(items[i], pk)}
ReadBack == read(objects, res.out.value.id).out

(* C5: when create(data) returns an instance, read(instance.id) right      *)
(* after it returns an instance whose plain fields are the values given in *)
(* data and whose many-to-many relation is the set of related objects      *)
(* given in data.                                                          *)
C5_CreateReadRoundTrip ==
  (res.op = "create" /\ res.out.kind = "ok") =>
    /\ ReadBack.kind = "ok"
    /\ ReadBack.value = res.out.value
    /\ HasKey(res.data, "id") => ReadBack.value.id = ValueOf(res.data, "id").n
    /\ HasKey(res.data, "name") => ReadBack.value.name = ValueOf(res.data, "name").s
    /\ HasKey(res.data, "owner") =>
          ReadBack.value.owner = IF ValueOf(res.data, "owner").k = "none" THEN {}
                                 ELSE {ValueOf(res.data, "owner").n}
    /\ HasKey(res.data, "owner_id") => ReadBack.value.owner = {ValueOf(res.data, "owner_id").n}
    /\ HasKey(res.data, "tags") =>
          /\ ReadBack.value.tags = GivenRelated(ValueOf(res.data, "tags").items)
          /\ \A i \in DOMAIN ValueOf(res.data, "tags").items :
                \E pk \in TagIds : Denotes(ValueOf(res.data, "tags").items[i], pk)

C5_Witness ==
  /\ res.op = "create" /\ res.out.kind = "ok"
  /\ HasKey(res.data, "name") /\ HasKey(res.data, "tags")
  /\ ValueOf(res.data, "tags").items # <<>>
  /\ ReadBack.value.tags # {}

SoundData == {<<Item("name", StrV("b"))>>,
              <<Item("name", StrV("b")), Item("tags", ListV(<<IntV(1)>>))>>}
FullCleanFailed ==
  /\ res.op \in {"create", "update"}
  /\ res.data \in SoundData
  /\ env.appErrors # <<>>
  /\ res.out.kind # "NotFound"
Shown(field_error) ==
  IF field_error.params # NoParams
    THEN Interpolate(field_error.message, field_error.params)
    ELSE field_error.message
EntriesFor(field) == {i \in DOMAIN res.out.errors : res.out.errors[i].field = field}
OneEntryPerError(FieldShown(_)) ==
  /\ \A k \in DOMAIN env.appErrors :
        /\ Cardinality(EntriesFor(FieldShown(env.appErrors[k].field)))
             = Len(env.appErrors[k].errs)
        /\ \A j \in DOMAIN env.appErrors[k].errs :
              \E i \in DOMAIN res.out.errors :
                res.out.errors[i] = Err(FieldShown(env.appErrors[k].field),
                                        Shown(env.appErrors[k].errs[j]))
  /\ \A i \in DOMAIN res.out.errors :
        /\ \E k \in DOMAIN env.appErrors :
              res.out.errors[i].field = FieldShown(env.appErrors[k].field)
        /\ \A t \in DOMAIN res.out.errors[i].message :
              res.out.errors[i].message[t] \notin DOMAIN PlaceholderKey
KeyAsField(key) == key
ListErrorRaised ==
  /\ res.op \in {"create", "update"}
  /\ res.data = <<Item("tags", MalformedTag)>>
  /\ env.appErrors = <<>> /\ env.pkExc = "ValidationError"
  /\ res.out.kind # "NotFound"

(* C6: when full_clean fails during create or update, the call raises     *)
(* BadRequest, never InternalServerError, with exactly one entry per       *)
(* reported error; the entry's message has the params interpolated and its *)
(* field is the key the error is reported under in error_dict: the field   *)
(* name, or "__all__" for a non-field error.  The field is None only for a *)
(* ValidationError that carries an error_list.                             *)
C6_ValidationErrorsBecomeBadRequest ==
  /\ FullCleanFailed => res.out.kind = "BadRequest" /\ OneEntryPerError(KeyAsField)
  /\ ListErrorRaised =>
        /\ res.out.kind = "BadRequest"
        /\ res.out.errors = <<Err(NoneField, <<"x", " is not a valid UUID.">>)>>

C6_Witness ==
  /\ FullCleanFailed /\ res.op = "update"
  /\ res.out.kind = "BadRequest"
  /\ Len(res.out.errors) = 3
  /\ res.out.errors[1] = Err("name", <<"Ensure this value has at most ", "1", " characters.">>)
  /\ res.out.errors[3].field = NON_FIELD_ERRORS

NoneForNonField(key) == IF key = NON_FIELD_ERRORS THEN NoneField ELSE key

(* C6 as claimed: the field of an entry is the field name for a per-field  *)
(* error and None for a non-field error.                                   *)
C6_NonFieldErrorsHaveFieldNone ==
  FullCleanFailed => res.out.kind = "BadRequest" /\ OneEntryPerError(NoneForNonField)

BadManyToManyData ==
  {<<Item("tags", IntV(1))>>, <<Item("tags", MissingTag)>>, <<Item("tags", MalformedTag)>>}

(* C7: a many-to-many value that is no list, or names an id no related     *)
(* object has, or holds a malformed id, makes create and update raise      *)
(* BadRequest.                                                             *)
C7_ManyToManyProblemsRaiseBadRequest ==
  ( /\ res.op \in {"create", "update"}
    /\ res.data \in BadManyToManyData
    /\ env.appErrors = <<>>
    /\ res.out.kind # "NotFound" ) => res.out.kind = "BadRequest"

(* A many-to-many value that is no list has left create as an              *)
(* InternalServerError.                                                    *)
C7_Witness ==
  /\ res.op = "create"
  /\ res.data = <<Item("tags", IntV(1))>>
  /\ env.appErrors = <<>>
  /\ res.out.kind = "InternalServerError"

UnknownKeys(data) == {i \in DOMAIN data : data[i].key \notin GetFieldNames}
UnknownKeyStep ==
  ( /\ res'.op \in {"create", "update"}
    /\ res'.op = "update" => res'.id \in DOMAIN objects
    /\ UnknownKeys(res'.data) # {} ) =>
      /\ res'.out.kind = "BadRequest"
      /\ objects' = objects

(* C8: create, and update of a stored id, raise BadRequest when a key of   *)
(* data names no field of the model, and nothing is saved or modified in   *)
(* the store in that case.                                                 *)
C8_UnknownKeyRejectedBeforeWrite == [][UnknownKeyStep]_vars

(* The key "name_id" names no field, and update has stored its value as    *)
(* the name.                                                               *)
C8_Witness ==
  /\ res.op = "update" /\ res.out.kind = "ok"
  /\ res.data = <<Item("name_id", StrV("b"))>>
  /\ res.id \in DOMAIN objects
  /\ objects[res.id].name = "b"

RepositoryOperation(op) == IF op = "list" THEN "filter" ELSE op
ServiceStep ==
  res'.op # "none" =>
    /\ Len(calls') = 1
    /\ calls'[1] = Call(RepositoryOperation(res'.op), res'.id, res'.data, res'.out)
    /\ res'.op = "read" => Result(res'.out, objects') = read(objects, res'.id)
    /\ res'.op = "list" => Result(res'.out, objects') = filter(objects, res'.data)
    /\ res'.op = "delete" =>
          \E dbError \in BOOLEAN :
            Result(res'.out, objects') = delete(objects, res'.id, dbError)
    /\ res'.op = "update" =>
          \E appErrors \in AppErrorChoices :
            Result(res'.out, objects')
              = update(objects, res'.id, res'.data, appErrors, "ValueError")
    /\ res'.op = "create" =>
          \E appErrors \in AppErrorChoices, newId \in NewIds(objects, res'.data) :
            Result(res'.out, objects')
              = create(objects, res'.data, newId, appErrors, "ValueError")

(* C9: each service method makes exactly one repository call, of the       *)
(* operation create, read, filter, update or delete with the id and data   *)
(* it was given, returns or raises what that call does, and has the effect *)
(* of that repository operation on the store, whatever the context.        *)
C9_ServiceDelegatesToRepository == [][ServiceStep]_vars

C9_Witness ==
  /\ res.op = "delete" /\ res.out.kind = "ok"
  /\ Len(calls) = 1 /\ calls[1].op = "delete" /\ calls[1].id = res.id
  /\ res.id \in gone

DeniesRequest(permissions_classes) ==
  \E i \in DOMAIN permissions_classes : ~permissions_classes[i].has_permission
DeniesObject(permissions_classes) ==
  \E i \in DOMAIN permissions_classes : ~permissions_classes[i].has_object_permission

(* C1: when the has_permission of some configured permission class is      *)
(* false, dispatch raises Forbidden and neither a service action nor the   *)
(* handler is executed; with no permission class configured, dispatch      *)
(* never raises Forbidden.                                                 *)
C1_PermissionsCheckedBeforeProcessing ==
  view.method # "none" =>
    /\ DeniesRequest(view.permissions_classes) =>
          /\ view.raised = "Forbidden"
          /\ view.actions = <<>>
          /\ ~view.handlerRan
    /\ view.permissions_classes = <<>> => view.raised # "Forbidden"

C1_Witness ==
  /\ view.method = "DELETE" /\ view.existed
  /\ view.permissions_classes = <<DenyObject, DenyRequest>>
  /\ view.raised = "Forbidden" /\ view.actions = <<>>
  /\ view.lookup \in DOMAIN objects

(* C2: for a request whose lookup value identifies a stored object, when   *)
(* the has_object_permission of some configured permission is false (and   *)
(* no has_permission is), dispatch raises Forbidden and the handler never  *)
(* runs.                                                                   *)
C2_ObjectPermissionEnforced ==
  ( /\ view.method # "none"
    /\ view.existed
    /\ ~DeniesRequest(view.permissions_classes)
    /\ DeniesObject(view.permissions_classes) ) =>
      /\ view.raised = "Forbidden"
      /\ ~view.handlerRan

(* The object stored under the primary key 0 was looked up by a request    *)
(* whose only permission denies the object, and the handler ran.           *)
C2_Witness ==
  /\ view.method = "DELETE" /\ view.existed /\ view.lookup = 0
  /\ view.permissions_classes = <<DenyObject>>
  /\ view.handlerRan /\ view.raised = "BadRequest"

====
